---- MODULE Spec2Model ----
(***************************************************************************)
(* LRID assessment: the draft engine of build_draft.js (the second         *)
(* program of that file, "LRID Draft Engine (MVP)"), the warnings of the   *)
(* draft builder that precedes it in the file, the snippet extraction, and *)
(* the band functions of the approval step and of the server's report      *)
(* scoring.                                                                *)
(*                                                                         *)
(* Numbers with two decimals (scores, thresholds, confidence) are integers *)
(* counted in hundredths: 2.79 is 279, 1.00 is 100.                        *)
(* A JavaScript string is a sequence of one-character strings.             *)
(* A JavaScript value (an answer's `response`) is a record with a kind k   *)
(* ("int", "str", "bool"), its number n and its text s.                    *)
(***************************************************************************)
EXTENDS Integers, Sequences, FiniteSets, TLC

VARIABLES
  instrument,   \* schemas/instrument.v1.json as parsed
  responses,    \* the responses file as parsed
  draft,        \* the draft written by main
  pc,           \* "start", "done" (engine draft written), "stable" (builder
                \* draft written) or "threw" (uncaught TypeError)
  bandsCfg,     \* band thresholds handed to the band functions
  score,        \* the score last banded
  band,         \* the bands the three programs gave that score
  answerText,   \* the answer text handed to extractSnippet
  ruleKeywords, \* the keyword list handed to extractSnippet
  snippet,      \* what extractSnippet returned
  clock,        \* the time new Date() returns
  draftMeta,    \* the meta block of the engine's draft
  previous,     \* the draft file as the preceding engine run left it
  rounding,     \* the sides the half-way composite means fell on
  instrumentFile, \* schemas/instrument.v1.json: whether it exists, what it holds
  responsesRead, \* the run has read the responses file
  files,        \* the draft, approval and payload files of the approval step
  original,     \* the draft file as the build wrote it
  dataDir,      \* the draft files of one case in the data directory, by path
  builds,       \* how many builds have run
  session,      \* the stored questionnaire session
  reply         \* the last reply of the questionnaire server

vars == <<instrument, responses, draft, pc, bandsCfg, score, band,
          answerText, ruleKeywords, snippet,
          clock, draftMeta, previous, rounding, instrumentFile, responsesRead,
          files, original, dataDir, builds, session, reply>>

\* the variables of each part of the system
inputVars == <<instrument, responses, instrumentFile>>
runVars == <<clock, draftMeta, previous, rounding>>
bandVars == <<bandsCfg, score, band>>
snippetVars == <<answerText, ruleKeywords, snippet>>
approvalVars == <<files, original>>
buildVars == <<dataDir, builds>>
sessionVars == <<session, reply>>
laterVars == <<approvalVars, buildVars, sessionVars>>
engineVars == <<inputVars, draft, runVars, responsesRead, bandVars, snippetVars>>

\* ------------------------------------------------------------------ bounds
MaxBadValue == 6       \* largest out-of-range integer drawn for a likert answer
NumLikertLong == 11    \* likert questions of the long-form instrument
NumCcSets == 4         \* consistency sets of the long-form instrument
MaxBandScore == 360    \* largest score (hundredths) handed to the band functions

\* ------------------------------------------------------- program constants
StraightLineMin == 10  \* likerts.length >= 10
SnippetMax == 160      \* extractSnippet(..., 160)
SnippetBefore == 40    \* idx - 40
SnippetAfter == 120    \* idx + 120
CcHighIntegrity == 4   \* ccVal >= 4
PenTooFast == 15       \* conf -= 0.15
PenStraight == 15      \* conf -= 0.15
PenLowVar == 10        \* conf -= 0.10
PenPerMismatch == 10   \* 0.10 * ccMismatchCount
PenMismatchCap == 30   \* Math.min(0.30, ...)
PenOpenText == 10      \* openTextPenalty 0.10
ConfMedium == 65       \* conf < 0.65
ConfHigh == 80         \* conf < 0.80
HardRiskMax == 279     \* instrumentBands.risk_zone_max of approve_case
HardMixedMax == 330    \* instrumentBands.mixed_max of approve_case
ServerRiskBelow == 280 \* s < 2.8
ServerMixedBelow == 330 \* s < 3.3

\* ------------------------------------------------------- sequence helpers
Max2(a, b) == IF a >= b THEN a ELSE b
Min2(a, b) == IF a <= b THEN a ELSE b

RECURSIVE SumSeq(_)
SumSeq(s) == IF s = <<>> THEN 0 ELSE Head(s) + SumSeq(Tail(s))

RECURSIVE Flatten(_)
Flatten(ss) == IF ss = <<>> THEN <<>> ELSE Head(ss) \o Flatten(Tail(ss))

Range(s) == {s[i] : i \in 1..Len(s)}

\* ------------------------------------------------------------ JS values
IntV(n) == [k |-> "int", n |-> n, s |-> <<>>]
StrV(t) == [k |-> "str", n |-> 0, s |-> t]
BoolV(b) == [k |-> "bool", n |-> IF b THEN 1 ELSE 0, s |-> <<>>]

\* ------------------------------------------------------------ JS strings
UpperCase == <<"A","B","C","D","E","F","G","H","I","J","K","L","M",
               "N","O","P","Q","R","S","T","U","V","W","X","Y","Z">>
LowerCase == <<"a","b","c","d","e","f","g","h","i","j","k","l","m",
               "n","o","p","q","r","s","t","u","v","w","x","y","z">>

toLowerCase(t) ==
  [i \in 1..Len(t) |->
     IF \E j \in 1..26 : UpperCase[j] = t[i]
     THEN LowerCase[CHOOSE j \in 1..26 : UpperCase[j] = t[i]]
     ELSE t[i]]

\* String.prototype.trim: strip the blanks at both ends
RECURSIVE trimStart(_)
trimStart(t) == IF t # <<>> /\ Head(t) = " " THEN trimStart(Tail(t)) ELSE t
RECURSIVE trimEnd(_)
trimEnd(t) ==
  IF t # <<>> /\ t[Len(t)] = " " THEN trimEnd(SubSeq(t, 1, Len(t) - 1)) ELSE t
trim(t) == trimEnd(trimStart(t))

\* String.prototype.indexOf, 0-based, -1 when absent
indexOf(t, k) ==
  LET hits == {i \in 0..(Len(t) - Len(k)) : SubSeq(t, i + 1, i + Len(k)) = k}
  IN IF hits = {} THEN -1 ELSE CHOOSE i \in hits : \A j \in hits : i <= j

\* String.prototype.includes
includes(t, k) == indexOf(t, k) >= 0

\* String.prototype.slice(a, b) with 0 <= a, b
slice(t, a, b) == SubSeq(t, a + 1, Min2(b, Len(t)))

Ellipsis == <<".", ".", ".">>

normalizeText(s) == toLowerCase(s)

\* ------------------------------------------------------------ build_draft.js
StrongBand == "Functional Strength"
\* bandFor with the lower cut exclusive
bandForStrict(sc, cfg) ==
  IF sc < cfg.risk_zone_max THEN "Risk Zone"
  ELSE IF sc <= cfg.mixed_max THEN "Mixed / Context-dependent"
  ELSE StrongBand

bandFor(sc, cfg) ==
  IF sc <= cfg.risk_zone_max THEN "Risk Zone"
  ELSE IF sc <= cfg.mixed_max THEN "Mixed / Context-dependent"
  ELSE StrongBand

clamp(n, lo, hi) == Max2(lo, Min2(hi, n))

NoSnippet == [isNull |-> TRUE, text |-> <<>>, max_chars |-> 0]

\* first keyword of the list that occurs in the lower-cased text
firstKeywordIdx(lower, keywords) ==
  LET found == {j \in 1..Len(keywords) : indexOf(lower, toLowerCase(keywords[j])) >= 0}
  IN IF found = {} THEN -1
     ELSE indexOf(lower, toLowerCase(keywords[CHOOSE j \in found : \A h \in found : j <= h]))

\* extractSnippet without the trailing ellipsis of the keyword window
extractSnippetNoTrail(text, keywords, maxChars) ==
  LET t == text
      idx == firstKeywordIdx(toLowerCase(t), keywords)
      start == Max2(0, idx - SnippetBefore)
      end == Min2(Len(t), idx + SnippetAfter)
      win == slice(t, start, end)
      cut == IF Len(win) > maxChars THEN slice(win, 0, maxChars) ELSE win
      lead == IF start > 0 THEN Ellipsis \o cut ELSE cut
      sn == slice(t, 0, maxChars)
  IN IF trim(t) = <<>> THEN NoSnippet
     ELSE IF idx < 0
       THEN [isNull |-> FALSE,
             text |-> IF Len(sn) < Len(t) THEN sn \o Ellipsis ELSE sn,
             max_chars |-> maxChars]
       ELSE [isNull |-> FALSE, text |-> lead, max_chars |-> maxChars]

extractSnippet(text, keywords, maxChars) ==
  LET t == text
      idx == firstKeywordIdx(toLowerCase(t), keywords)
      start == Max2(0, idx - SnippetBefore)
      end == Min2(Len(t), idx + SnippetAfter)
      win == slice(t, start, end)
      cut == IF Len(win) > maxChars THEN slice(win, 0, maxChars) ELSE win
      lead == IF start > 0 THEN Ellipsis \o cut ELSE cut
      full == IF end < Len(t) THEN lead \o Ellipsis ELSE lead
      sn == slice(t, 0, maxChars)
  IN IF trim(t) = <<>> THEN NoSnippet
     ELSE IF idx < 0
       THEN [isNull |-> FALSE,
             text |-> IF Len(sn) < Len(t) THEN sn \o Ellipsis ELSE sn,
             max_chars |-> maxChars]
       ELSE [isNull |-> FALSE, text |-> full, max_chars |-> maxChars]

validateAnswerType(ans, qDef) ==
  LET v == ans.response
      likertLike == v.k = "int" /\ v.n >= 1 /\ v.n <= 5
  IN CASE qDef.type = "likert_5" -> likertLike
       [] qDef.type = "multiple_choice" ->
            v.k = "str" /\ v.s \in {<<"A">>, <<"B">>, <<"C">>, <<"D">>}
       [] qDef.type = "yes_no" -> v.k = "bool"
       [] qDef.type = "open_text" -> v.k = "str"
       [] qDef.type = "consistency_check" -> likertLike \/ v.k = "str"
       [] OTHER -> TRUE


\* ------------------------------------------------------------ main (engine)
dims == <<"DI", "RP", "MA", "AC", "PR", "ED">>

ExceptionKeywords == <<
    <<"b", "y", "p", "a", "s", "s">>,
    <<"s", "k", "i", "p">>,
    <<"e", "x", "c", "e", "p", "t", "i", "o", "n">>,
    <<"s", "h", "o", "r", "t", "c", "u", "t">>,
    <<"d", "e", "a", "d", "l", "i", "n", "e">>,
    <<"n", "o", "n", "-", "n", "e", "g", "o", "t", "i", "a", "b", "l", "e">> >>

\* a message pushed on hardErrors or softWarnings: its wording (kind), the
\* id it interpolates (ref) and, for the missing-answers message, the ids
Msg(kind, ref, ids) == [kind |-> kind, ref |-> ref, ids |-> ids]
NoRef == <<"", 0>>

\* question ids are a prefix and a number: <<"CC_", 1>> is CC_1
startsWithCC(id) == id[1] = "CC_"

\* const answers = Array.isArray(responses.answers) ? responses.answers : []
answersOf(resp) == IF resp.answersIsArray THEN resp.answers ELSE <<>>

\* for (const a of answers) answerById.set(a.question_id, a): the last wins
answerById(answers) ==
  [id \in {answers[i].question_id : i \in 1..Len(answers)} |->
     answers[CHOOSE i \in 1..Len(answers) :
               /\ answers[i].question_id = id
               /\ \A j \in (i + 1)..Len(answers) : answers[j].question_id # id]]

\* responses.answers of null, a.question_id of a null entry, and
\* bandsCfg.risk_zone_max of an instrument without bands: TypeError
mainThrows(file, resp) ==
  \/ resp.isNull
  \/ \E i \in 1..Len(answersOf(resp)) : answersOf(resp)[i].isNull
  \/ ~file.has_bands

\* consentErrors raising the error only on an explicit refusal
consentErrorsOnlyFalse(resp) ==
  IF resp.consent.present /\ resp.consent.terms_accepted = "false"
  THEN <<Msg("Consent not accepted", NoRef, <<>>)>> ELSE <<>>

consentErrors(resp) ==
  IF resp.consent.present /\ resp.consent.terms_accepted # "true"
  THEN <<Msg("Consent not accepted", NoRef, <<>>)>> ELSE <<>>

missingRequired(instr, byId) ==
  LET required == SelectSeq(instr.questions, LAMBDA q : q.required)
      requiredIds == [i \in 1..Len(required) |-> required[i].id]
  IN SelectSeq(requiredIds, LAMBDA id : id \notin DOMAIN byId)

\* the type-check loop: what it pushes on hardErrors for one question
typeErrors(q, byId) ==
  IF q.id \notin DOMAIN byId THEN <<>>
  ELSE IF ~validateAnswerType(byId[q.id], q)
       THEN <<Msg("Invalid type/value", q.id, <<>>)>> ELSE <<>>

\* the type-check loop: what it pushes on softWarnings for one question
typeWarnings(q, byId) ==
  IF q.id \notin DOMAIN byId THEN <<>>
  ELSE IF ~validateAnswerType(byId[q.id], q) THEN <<>>
  ELSE IF q.type = "open_text" /\ q.min_chars > 0
            /\ Len(trim(byId[q.id].response.s)) < q.min_chars
       THEN <<Msg("Open-text length low", q.id, <<>>)>> ELSE <<>>

hardErrorsOf(instr, resp, byId) ==
  LET missing == missingRequired(instr, byId)
  IN consentErrors(resp)
     \o (IF missing # <<>> THEN <<Msg("Missing required answers", NoRef, missing)>> ELSE <<>>)
     \o Flatten([i \in 1..Len(instr.questions) |-> typeErrors(instr.questions[i], byId)])

\* const durationSeconds = responses?.timing?.duration_seconds ?? 0
durationSecondsOf(resp) ==
  IF resp.timing.present THEN resp.timing.duration_seconds ELSE 0

flagTooFastOf(instr, resp) ==
  IF instr.min_expected_seconds > 0
  THEN durationSecondsOf(resp) < instr.min_expected_seconds ELSE FALSE

\* the responses of the answered likert_5 questions, in question order
likertsOf(instr, byId) ==
  LET qs == SelectSeq(instr.questions,
                      LAMBDA q : q.type = "likert_5" /\ q.id \in DOMAIN byId)
  IN [i \in 1..Len(qs) |-> byId[qs[i].id].response]

flagStraightLiningOf(likerts) ==
  Len(likerts) >= StraightLineMin /\ Cardinality(Range(likerts)) = 1

flagLowVarianceOf(likerts) ==
  Len(likerts) >= StraightLineMin /\ Cardinality(Range(likerts)) <= 2


\* ------------------------------------------------------------ consistency
\* Array.prototype.join(" ")
RECURSIVE joinSpace(_)
joinSpace(ts) ==
  IF ts = <<>> THEN <<>>
  ELSE IF Len(ts) = 1 THEN ts[1]
  ELSE ts[1] \o <<" ">> \o joinSpace(Tail(ts))

setComplete(set, byId) ==
  \A i \in 1..Len(set.question_ids) : set.question_ids[i] \in DOMAIN byId

\* the string responses of the set's questions, in the set's order
setTexts(set, byId) ==
  LET strIds == SelectSeq(set.question_ids, LAMBDA id : byId[id].response.k = "str")
  IN [i \in 1..Len(strIds) |-> byId[strIds[i]].response.s]

exceptionHitOf(set, byId) ==
  LET combined == normalizeText(joinSpace(setTexts(set, byId)))
  IN \E j \in 1..Len(ExceptionKeywords) : includes(combined, ExceptionKeywords[j])

\* answerById.get(set.cc_id) || answerById.get(first question id starting with "CC_");
\* ccVal is the answer's response when it is an integer, null (here -1) otherwise
ccValOf(set, byId) ==
  LET ccIds == SelectSeq(set.question_ids, startsWithCC)
      ccKey == IF set.cc_id \in DOMAIN byId THEN <<set.cc_id>>
               ELSE IF ccIds # <<>> /\ ccIds[1] \in DOMAIN byId THEN <<ccIds[1]>>
               ELSE <<>>
  IN IF ccKey # <<>> /\ byId[ccKey[1]].response.k = "int"
     THEN byId[ccKey[1]].response.n ELSE -1

\* setMismatch with the probe threshold exclusive
setMismatchStrict(set, byId) ==
  exceptionHitOf(set, byId) /\ ccValOf(set, byId) # -1
    /\ ccValOf(set, byId) > CcHighIntegrity

setMismatch(set, byId) ==
  exceptionHitOf(set, byId) /\ ccValOf(set, byId) # -1
    /\ ccValOf(set, byId) >= CcHighIntegrity

ccItemOf(set, byId) ==
  [cc_id |-> set.cc_id,
   result |-> IF setMismatch(set, byId) THEN "MISMATCH" ELSE "OK",
   severity |-> IF setMismatch(set, byId) THEN "MEDIUM" ELSE "LOW",
   question_ids |-> set.question_ids]

ccItemsOf(instr, byId) ==
  LET evaluated == SelectSeq(instr.consistency_sets, LAMBDA set : setComplete(set, byId))
  IN [i \in 1..Len(evaluated) |-> ccItemOf(evaluated[i], byId)]

ccWarningsOf(instr, byId) ==
  LET skipped == SelectSeq(instr.consistency_sets, LAMBDA set : ~setComplete(set, byId))
  IN [i \in 1..Len(skipped) |-> Msg("Consistency set incomplete", skipped[i].cc_id, <<>>)]

ccMismatchCountOf(ccItems) ==
  Len(SelectSeq(ccItems, LAMBDA it : it.result = "MISMATCH"))

\* ------------------------------------------------------------ red flags
\* ruleMatches without lower-casing the answer
ruleMatchesExact(rule, qid, byId) ==
  /\ qid \in DOMAIN byId
  /\ byId[qid].response.k = "str"
  /\ \E j \in 1..Len(rule.keywords_any) :
        includes(byId[qid].response.s, toLowerCase(rule.keywords_any[j]))

ruleMatches(rule, qid, byId) ==
  /\ qid \in DOMAIN byId
  /\ byId[qid].response.k = "str"
  /\ \E j \in 1..Len(rule.keywords_any) :
        includes(normalizeText(byId[qid].response.s), toLowerCase(rule.keywords_any[j]))

rfItemOf(rule, byId) ==
  LET evidenceQ == SelectSeq(rule.open_text_question_ids,
                             LAMBDA qid : ruleMatches(rule, qid, byId))
      sns == [i \in 1..Len(evidenceQ) |->
                extractSnippet(byId[evidenceQ[i]].response.s, rule.keywords_any, SnippetMax)]
      hit == evidenceQ # <<>>
  IN [rf_id |-> rule.rf_id,
      status |-> IF hit THEN "PRESENT" ELSE "NONE",
      severity |-> IF hit
                   THEN (IF rule.severity_if_triggered # "" THEN rule.severity_if_triggered
                         ELSE "MEDIUM")
                   ELSE "LOW",
      question_ids |-> evidenceQ,
      snippets |-> SelectSeq(sns, LAMBDA sn : ~sn.isNull)]

rfItemsOf(instr, byId) ==
  [i \in 1..Len(instr.red_flag_rules) |-> rfItemOf(instr.red_flag_rules[i], byId)]

triggersOf(rfItems) ==
  LET present == SelectSeq(rfItems, LAMBDA it : it.status = "PRESENT")
  IN [i \in 1..Len(present) |-> present[i].rf_id]

\* highStakesOnOf counting triggers only
highStakesOnOfCountOnly(rfItems) ==
  Len(triggersOf(rfItems)) >= 2

highStakesOnOf(rfItems) ==
  \/ \E i \in 1..Len(rfItems) : rfItems[i].status # "NONE" /\ rfItems[i].severity = "HIGH"
  \/ Len(triggersOf(rfItems)) >= 2


\* ------------------------------------------------------------ scoring
\* Number((num / den).toFixed(2)) in hundredths, for num >= 0 and den > 0.
\* toFixed prints the decimal nearest to the double it is given; when the
\* quotient lies exactly half-way between two hundredths the double may sit
\* on either side of it, and tieUp says on which.
toFixed2(num, den, tieUp) ==
  LET q == (100 * num) \div den
      r == (100 * num) % den
  IN IF 2 * r < den THEN q
     ELSE IF 2 * r > den THEN q + 1
     ELSE IF tieUp THEN q + 1 ELSE q

\* the quotient lies exactly half-way between two hundredths
halfWay(num, den) == 2 * ((100 * num) % den) = den

\* dimBuckets[d]: the responses of the answered likert_5 questions of
\* dimension d, conforming or not (the response sets drawn answer likert
\* questions with integers only, so the bucket holds numbers)
dimBucket(instr, byId, d) ==
  LET qs == SelectSeq(instr.questions,
                      LAMBDA q : q.type = "likert_5" /\ q.dimension = d
                                 /\ q.id \in DOMAIN byId)
  IN [i \in 1..Len(qs) |-> byId[qs[i].id].response.n]

\* arr.reduce((a, b) => a + b, 0) / arr.length, toFixed(2), clamp(1.0, 5.0).
\* A mean of fewer than 40 integers that is half-way between two hundredths
\* is a multiple of 1/8, exact in binary, and toFixed takes the larger
\* neighbour.
dimensionScoreOf(instr, byId, d) ==
  LET arr == dimBucket(instr, byId, d)
  IN IF arr = <<>> THEN 0
     ELSE clamp(toFixed2(SumSeq(arr), Len(arr), TRUE), 100, 500)

dimensionScoresOf(instr, byId) ==
  [d \in Range(dims) |-> dimensionScoreOf(instr, byId, d)]

noItemsWarnings(instr, byId) ==
  LET empty == SelectSeq(dims, LAMBDA d : dimBucket(instr, byId, d) = <<>>)
  IN [i \in 1..Len(empty) |-> Msg("No likert_5 items for dimension", <<empty[i], 0>>, <<>>)]

\* meanValid keeping the zero sentinels
meanValidAll(vals) == vals

\* const mean = (...vals) => ...; vals and the result in hundredths
meanValid(vals) == SelectSeq(vals, LAMBDA v : v > 0)
mean(vals, tieUp) ==
  LET valid == meanValid(vals)
  IN IF valid = <<>> THEN 0
     ELSE toFixed2(SumSeq(valid), 100 * Len(valid), tieUp)

\* the sides the double of mean(vals) can fall on: either when the exact mean
\* is half-way between two hundredths, and immaterial (FALSE) otherwise
meanTieSides(vals) ==
  IF meanValid(vals) # <<>> /\ halfWay(SumSeq(meanValid(vals)), 100 * Len(meanValid(vals)))
  THEN BOOLEAN ELSE {FALSE}

hsriVals(ds) == <<ds["DI"], ds["MA"], ds["PR"], ds["ED"]>>
oiVals(ds) == <<ds["DI"], ds["RP"], ds["AC"]>>

\* ------------------------------------------------------------ confidence
Driver(text, n) == [text |-> text, n |-> n]

hasOpenTextLow(softWarnings) ==
  \E i \in 1..Len(softWarnings) : softWarnings[i].kind = "Open-text length low"

\* mismatchPenalty without the cap
mismatchPenaltyUncapped(ccMismatchCount) == PenPerMismatch * ccMismatchCount

mismatchPenalty(ccMismatchCount) ==
  Min2(PenMismatchCap, PenPerMismatch * ccMismatchCount)

confOf(tooFast, straight, lowVar, ccMismatchCount, softWarnings) ==
  clamp(100
        - (IF tooFast THEN PenTooFast ELSE 0)
        - (IF straight THEN PenStraight ELSE IF lowVar THEN PenLowVar ELSE 0)
        - (IF ccMismatchCount > 0 THEN mismatchPenalty(ccMismatchCount) ELSE 0)
        - (IF hasOpenTextLow(softWarnings) THEN PenOpenText ELSE 0),
        0, 100)

driversOf(tooFast, straight, lowVar, ccMismatchCount, softWarnings) ==
  (IF tooFast THEN <<Driver("Too fast completion time", 0)>> ELSE <<>>)
  \o (IF straight THEN <<Driver("Straight-lining pattern detected", 0)>>
      ELSE IF lowVar THEN <<Driver("Low variance pattern detected", 0)>> ELSE <<>>)
  \o (IF ccMismatchCount > 0
      THEN <<Driver("Consistency mismatch count", ccMismatchCount)>> ELSE <<>>)
  \o (IF hasOpenTextLow(softWarnings)
      THEN <<Driver("Open-text evidence too short", 0)>> ELSE <<>>)

\* confLevelOf with the boundaries exclusive on the lower side
confLevelOfExclusive(conf) ==
  IF conf <= ConfMedium THEN "Caution"
  ELSE IF conf <= ConfHigh THEN "Medium"
  ELSE "High"

confLevelOf(conf) ==
  IF conf < ConfMedium THEN "Caution"
  ELSE IF conf < ConfHigh THEN "Medium"
  ELSE "High"


\* ------------------------------------------------------------ handoff
\* autoGeneratePayloadAllowed without the hard-error condition
autoGeneratePayloadAllowedLoose(highStakesOn, confLevel, hardErrors) ==
  ~highStakesOn /\ confLevel = "High"

autoGeneratePayloadAllowed(highStakesOn, confLevel, hardErrors) ==
  ~highStakesOn /\ confLevel = "High" /\ Len(hardErrors) = 0

recommendedExpertAction(highStakesOn, hardErrors) ==
  IF Len(hardErrors) > 0 THEN "REVIEW"
  ELSE IF highStakesOn THEN "DEBRIEF" ELSE "REVIEW"

recommended_reason(highStakesOn, hardErrors) ==
  IF highStakesOn THEN "High-stakes triggers present."
  ELSE IF Len(hardErrors) > 0 THEN "Hard validation errors present."
  ELSE "No hard blockers; expert review recommended."

\* ------------------------------------------------------------ the draft
\* main, from the lookup maps to the draft object; tieH and tieO are the
\* sides the doubles of the two composite means fall on when half-way
buildDraft(instr, resp, tieH, tieO) ==
  LET answers == answersOf(resp)
      byId == answerById(answers)
      hardErrors == hardErrorsOf(instr, resp, byId)
      typeWarn == Flatten([i \in 1..Len(instr.questions) |->
                             typeWarnings(instr.questions[i], byId)])
      flagTooFast == flagTooFastOf(instr, resp)
      likerts == likertsOf(instr, byId)
      flagStraightLining == flagStraightLiningOf(likerts)
      flagLowVariance == flagLowVarianceOf(likerts)
      ccItems == ccItemsOf(instr, byId)
      ccMismatchCount == ccMismatchCountOf(ccItems)
      rfItems == rfItemsOf(instr, byId)
      highStakesOn == highStakesOnOf(rfItems)
      dimensionScores == dimensionScoresOf(instr, byId)
      softWarnings == typeWarn \o ccWarningsOf(instr, byId) \o noItemsWarnings(instr, byId)
      hsri == mean(hsriVals(dimensionScores), tieH)
      oi == mean(oiVals(dimensionScores), tieO)
      conf == confOf(flagTooFast, flagStraightLining, flagLowVariance,
                     ccMismatchCount, softWarnings)
      confLevel == confLevelOf(conf)
  IN [validation |->
        [status |-> IF Len(hardErrors) > 0 THEN "FAIL" ELSE "PASS",
         hard_errors |-> hardErrors,
         soft_warnings |-> softWarnings,
         expected_questions |-> instr.expected_questions,
         answered_questions |-> Len(answers),
         missing_question_ids |-> missingRequired(instr, byId),
         duration_seconds |-> durationSecondsOf(resp),
         flag_too_fast |-> flagTooFast,
         flag_straight_lining |-> flagStraightLining,
         flag_low_variance |-> flagLowVariance],
      confidence |->
        [level |-> confLevel,
         score |-> conf,
         drivers |-> driversOf(flagTooFast, flagStraightLining, flagLowVariance,
                               ccMismatchCount, softWarnings)],
      consistency_checks |->
        [status |-> IF ccMismatchCount > 0 THEN "ATTENTION" ELSE "OK",
         items |-> ccItems],
      red_flags |->
        [high_stakes |-> [status |-> IF highStakesOn THEN "ON" ELSE "OFF",
                          triggers |-> triggersOf(rfItems)],
         items |-> rfItems],
      draft_scoring |->
        [dimension_scores |-> dimensionScores,
         dimension_bands |-> [d \in Range(dims) |-> bandFor(dimensionScores[d], instr.bands)],
         aggregate_scores |-> [hsri |-> hsri, oi |-> oi],
         aggregate_bands |-> [hsri |-> bandFor(hsri, instr.bands),
                              oi |-> bandFor(oi, instr.bands)]],
      handoff |->
        [recommended_expert_action |-> recommendedExpertAction(highStakesOn, hardErrors),
         recommended_reason |-> recommended_reason(highStakesOn, hardErrors),
         auto_generate_payload_allowed |->
           autoGeneratePayloadAllowed(highStakesOn, confLevel, hardErrors)]]

NoDraft == [none |-> TRUE]

\* draft.meta: the generation time and the engine's constant identification
draftMetaStampedTwice(now) ==
  [generated_at |-> now,
   generated_by |-> [engine |-> "lrid-draft-engine", engine_version |-> now]]

draftMetaOf(now) ==
  [generated_at |-> now,
   generated_by |-> [engine |-> "lrid-draft-engine", engine_version |-> "0.1.0"]]

NoMeta == [generated_at |-> 0, generated_by |-> [engine |-> "", engine_version |-> ""]]
NoPrevious == [draft |-> NoDraft, meta |-> NoMeta]
NoRounding == [hsri |-> FALSE, oi |-> FALSE]


\* ------------------------------------------------------------ draft builder
\* main of the draft builder (the first program of build_draft.js)
\* instrument?.expected_questions || null; null is 0 here
stableExpectedQuestions(instr) == instr.expected_questions

\* instrument?.min_expected_seconds || null; null is 0 here
stableMinExpectedSeconds(instr) == instr.min_expected_seconds

\* Array.isArray(responses?.answers) ? responses.answers : []
stableAnswers(resp) ==
  IF resp.isNull \/ ~resp.answersIsArray THEN <<>> ELSE resp.answers

\* meta.duration_seconds, else duration_seconds, else null (here -1)
stableDurationSeconds(resp) ==
  IF resp.isNull THEN -1
  ELSE IF resp.meta_duration.present THEN resp.meta_duration.duration_seconds
  ELSE IF resp.top_duration.present THEN resp.top_duration.duration_seconds
  ELSE -1

stableWarnings(instr, resp) ==
  LET expectedQuestions == stableExpectedQuestions(instr)
      minExpectedSeconds == stableMinExpectedSeconds(instr)
      answers == stableAnswers(resp)
      durationSeconds == stableDurationSeconds(resp)
  IN (IF expectedQuestions # 0 /\ Len(answers) > 0 /\ Len(answers) # expectedQuestions
      THEN <<Msg("Expected answers but got", NoRef, <<>>)>> ELSE <<>>)
     \o (IF minExpectedSeconds # 0 /\ durationSeconds # -1
             /\ durationSeconds < minExpectedSeconds
         THEN <<Msg("Duration is below minimum", NoRef, <<>>)>> ELSE <<>>)

\* the validation block of the builder's draft: hardErrors stays empty
stableDraft(instr, resp) ==
  [validation |-> [status |-> "PASS",
                   hard_errors |-> <<>>,
                   warnings |-> stableWarnings(instr, resp)]]

\* ------------------------------------------------------------ draft file paths
\* for (let i = 2; i <= 200; i++)
MaxSuffix == 200

\* the clock, in seconds, runs to MaxClock; a case is built MaxBuilds times,
\* which is past the last suffix
MaxClock == 2
MaxBuilds == 203

\* draft_<caseId>.json, draft_<caseId>__<i>.json, draft_<caseId>__<stamp>.json
BasePath == <<"base", 0>>
SuffixPath(i) == <<"suffix", i>>
StampPath(now) == <<"stamp", now>>

DraftPaths ==
  {BasePath} \cup {SuffixPath(i) : i \in 2..MaxSuffix}
  \cup {StampPath(t) : t \in 0..MaxClock}

\* fs.existsSync(candidate)
existsSync(dir, candidate) == dir[candidate].exists

\* the first free of base and the suffixes 2..200, else the name stamped
\* with the time to the second
uniqueDraftPath(dir, now) ==
  IF ~existsSync(dir, BasePath) THEN BasePath
  ELSE LET free == {i \in 2..MaxSuffix : ~existsSync(dir, SuffixPath(i))}
       IN IF free # {} THEN SuffixPath(CHOOSE i \in free : \A j \in free : i <= j)
          ELSE StampPath(now)

\* ------------------------------------------------------------ approve_case
\* the band function of the approval step: thresholds fixed in the code
approveBandFor(sc) ==
  IF sc <= HardRiskMax THEN "Risk Zone"
  ELSE IF sc <= HardMixedMax THEN "Mixed / Context-dependent"
  ELSE StrongBand

\* the band of dimensionInterpretation(dim, score)
dimensionInterpretationBand(sc) ==
  IF sc <= HardRiskMax THEN "Risk Zone"
  ELSE IF sc <= HardMixedMax THEN "Mixed / Context-dependent"
  ELSE StrongBand

\* ------------------------------------------------------------ server.js
bandForScore(sc) ==
  IF sc < ServerRiskBelow THEN "Risk Zone"
  ELSE IF sc < ServerMixedBelow THEN "Mixed / Context-dependent"
  ELSE "Strong / Stable"

interpretationForDim(sc) ==
  IF sc < ServerRiskBelow THEN "Risk Zone"
  ELSE IF sc < ServerMixedBelow THEN "Mixed"
  ELSE "Strong"

\* ------------------------------------------------------------ inputs
Entry(id, v) == [isNull |-> FALSE, question_id |-> id, response |-> v]
NullEntry == [isNull |-> TRUE, question_id |-> NoRef, response |-> IntV(0)]

Question(id, type, dimension, required, minChars) ==
  [id |-> id, type |-> type, dimension |-> dimension,
   required |-> required, min_chars |-> minChars]

TxtOk == <<"o", "k">>
TxtPadded == <<" ", " ", "o", "k", " ", " ", " ", " ", " ", " ", " ">>
TxtSkipShort == <<"S", "k", "i", "p">>
TxtBypass == <<"n", "o", " ", "b", "y", "p", "a", "s", "s", " ", "h", "e", "r", "e">>
TxtClean == <<"a", "l", "l", " ", "r", "u", "l", "e", "s", " ", "k", "e", "p", "t">>
TxtSkipDeadline ==
  <<"S", "k", "i", "p", " ", "a", "t", " ", "d", "e", "a", "d", "l", "i", "n", "e">>

KwSkip == <<"s", "k", "i", "p">>
KwDeadline == <<"D", "e", "a", "d", "l", "i", "n", "e">>
KwBypass == <<"b", "y", "p", "a", "s", "s">>

OT1 == <<"OT", 1>>
OT2 == <<"OT", 2>>

\* a long form: likert questions over the six dimensions, two open-text
\* questions, and consistency sets that each pair a probe with the first
\* open text
LongInstrument ==
  [dimensions |-> dims,
   questions |->
     [i \in 1..NumLikertLong |->
        Question(<<"Q", i>>, "likert_5", dims[((i - 1) % 6) + 1],
                 i \in {1, NumLikertLong}, 0)]
     \o <<Question(OT1, "open_text", "ED", FALSE, 10),
          Question(OT2, "open_text", "PR", FALSE, 0)>>
     \o [i \in 1..NumCcSets |->
           Question(<<"CC_", i>>, "consistency_check", "ED", FALSE, 0)],
   bands |-> [risk_zone_max |-> 279, mixed_max |-> 330],
   consistency_sets |->
     [i \in 1..NumCcSets |->
        IF i % 2 = 1
        THEN [cc_id |-> <<"CC_", i>>, question_ids |-> <<<<"CC_", i>>, OT1>>]
        ELSE [cc_id |-> <<"SET", i>>, question_ids |-> <<OT1, <<"CC_", i>>>>]],
   red_flag_rules |->
     <<[rf_id |-> <<"RF", 1>>, open_text_question_ids |-> <<OT1>>,
        keywords_any |-> <<KwSkip>>, severity_if_triggered |-> "MEDIUM"],
       [rf_id |-> <<"RF", 2>>, open_text_question_ids |-> <<OT1>>,
        keywords_any |-> <<KwDeadline>>, severity_if_triggered |-> ""],
       [rf_id |-> <<"RF", 3>>, open_text_question_ids |-> <<OT1, OT2>>,
        keywords_any |-> <<KwBypass>>, severity_if_triggered |-> "HIGH"]>>,
   expected_questions |-> NumLikertLong + 2 + NumCcSets,
   min_expected_seconds |-> 600]

\* a short form with its own thresholds, a likert question that belongs to
\* no dimension, and no timing, consistency or red-flag configuration
ShortInstrument ==
  [dimensions |-> <<"DI", "MA", "RP">>,
   questions |->
     <<Question(<<"S", 1>>, "likert_5", "DI", TRUE, 0),
       Question(<<"S", 2>>, "likert_5", "DI", FALSE, 0),
       Question(<<"S", 3>>, "likert_5", "MA", FALSE, 0),
       Question(<<"S", 4>>, "likert_5", "", FALSE, 0),
       Question(<<"S", 5>>, "likert_5", "RP", FALSE, 0),
       Question(<<"Y", 1>>, "yes_no", "RP", FALSE, 0),
       Question(<<"M", 1>>, "multiple_choice", "RP", FALSE, 0)>>,
   bands |-> [risk_zone_max |-> 250, mixed_max |-> 350],
   consistency_sets |-> <<>>,
   red_flag_rules |-> <<>>,
   expected_questions |-> 7,
   min_expected_seconds |-> 0]

Instruments == {LongInstrument, ShortInstrument}

Consent(present, accepted) == [present |-> present, terms_accepted |-> accepted]
Consents == {Consent(FALSE, "missing"), Consent(TRUE, "true"),
             Consent(TRUE, "false"), Consent(TRUE, "missing")}

Timing(present, seconds) == [present |-> present, duration_seconds |-> seconds]
Timings == {Timing(FALSE, 0), Timing(TRUE, 100), Timing(TRUE, 900)}

\* meta_duration and top_duration are meta.duration_seconds and
\* duration_seconds, where the draft builder looks for the duration
ResponseSet(consent, timing, answers) ==
  [isNull |-> FALSE, consent |-> consent, timing |-> timing,
   meta_duration |-> Timing(FALSE, 0), top_duration |-> Timing(FALSE, 0),
   answersIsArray |-> TRUE, answers |-> answers]

\* the first n likert questions answered: a for Q1, b for Q2, c for the rest
LongLikert(n, abc) ==
  [i \in 1..n |->
     Entry(<<"Q", i>>, IntV(IF i = 1 THEN abc[1] ELSE IF i = 2 THEN abc[2] ELSE abc[3]))]

LikertProfiles ==
  {<<3, 3, 3>>, <<3, 4, 3>>, <<4, 5, 3>>, <<MaxBadValue, 3, 3>>,
   <<MaxBadValue, MaxBadValue, MaxBadValue>>}

\* the probes answered high (5 or 4) for the first k sets and low (2 or 3)
\* for the others; the last `drop` probes unanswered
LongCc(k, drop) ==
  [i \in 1..(NumCcSets - drop) |->
     Entry(<<"CC_", i>>, IntV(IF i <= k THEN (IF i % 2 = 1 THEN 5 ELSE 4)
                                       ELSE (IF i % 2 = 1 THEN 2 ELSE 3)))]

LongOpenText ==
  {<<>>, <<Entry(OT1, IntV(7))>>}
  \cup {<<Entry(OT1, StrV(t))>> :
          t \in {TxtOk, TxtPadded, TxtSkipShort, TxtBypass, TxtClean, TxtSkipDeadline}}

LongResponses ==
  {ResponseSet(c, t, LongLikert(n, abc) \o ot \o LongCc(k, drop)) :
     c \in Consents, t \in Timings,
     n \in (StraightLineMin - 1)..NumLikertLong, abc \in LikertProfiles,
     ot \in LongOpenText, k \in 0..NumCcSets, drop \in {0, 1}}

\* every question of the long form answered: the two open texts and the
\* first probe as given, the other probes high
LongFull(ot1, ot2, cc1) ==
  ResponseSet(Consent(TRUE, "true"), Timing(TRUE, 900),
              LongLikert(NumLikertLong, <<3, 4, 3>>)
              \o <<Entry(OT1, ot1), Entry(OT2, ot2), Entry(<<"CC_", 1>>, cc1)>>
              \o Tail(LongCc(NumCcSets, 0)))

\* response sets with the second open text answered, with probes that are
\* text, out of range or of the wrong type, and with the duration where the
\* draft builder reads it
LongExtra ==
  {LongFull(StrV(TxtClean), StrV(TxtBypass), IntV(5)),
   LongFull(StrV(TxtBypass), StrV(TxtBypass), IntV(5)),
   LongFull(StrV(TxtSkipDeadline), StrV(TxtBypass), IntV(5)),
   LongFull(StrV(TxtClean), IntV(7), IntV(5)),
   LongFull(StrV(TxtClean), StrV(TxtClean), StrV(TxtSkipShort)),
   LongFull(StrV(TxtBypass), StrV(TxtClean), StrV(TxtClean)),
   LongFull(StrV(TxtBypass), StrV(TxtClean), BoolV(TRUE)),
   LongFull(StrV(TxtBypass), StrV(TxtClean), IntV(MaxBadValue))}
  \cup {[LongFull(StrV(TxtOk), StrV(TxtClean), IntV(5))
           EXCEPT !.meta_duration = m, !.top_duration = t] :
          m \in Timings, t \in Timings}

ShortValue(id, v) == IF v < 0 THEN <<>> ELSE <<Entry(id, IntV(v))>>

ShortOther ==
  {<<>>,
   <<Entry(<<"Y", 1>>, BoolV(TRUE)), Entry(<<"M", 1>>, StrV(<<"B">>))>>,
   <<Entry(<<"Y", 1>>, StrV(<<"y">>)), Entry(<<"M", 1>>, StrV(<<"E">>))>>}

\* -1 stands for a question left unanswered
ShortResponses ==
  {ResponseSet(Consent(FALSE, "missing"), Timing(FALSE, 0),
               ShortValue(<<"S", 1>>, v1) \o ShortValue(<<"S", 2>>, v2)
               \o ShortValue(<<"S", 3>>, v3) \o ShortValue(<<"S", 4>>, v4) \o ShortValue(<<"S", 5>>, v5) \o other) :
     v1 \in -1..MaxBadValue, v2 \in -1..MaxBadValue, v3 \in -1..MaxBadValue,
     v4 \in {-1, 3}, v5 \in {-1, 3}, other \in ShortOther}

\* response files the engine was not written for: JSON null, an answers
\* field that is not a list, a null answer entry, an answer to a question the
\* instrument does not have, two answers to one question
OddResponses ==
  LET base == ResponseSet(Consent(TRUE, "true"), Timing(TRUE, 900),
                          <<Entry(<<"S", 1>>, IntV(4))>>)
  IN {[base EXCEPT !.isNull = TRUE],
      [base EXCEPT !.answersIsArray = FALSE],
      [base EXCEPT !.answers = @ \o <<NullEntry>>],
      [base EXCEPT !.answers = <<NullEntry>> \o @],
      [base EXCEPT !.answers = @ \o <<Entry(<<"Z", 9>>, IntV(3))>>],
      [base EXCEPT !.answers = <<Entry(<<"S", 1>>, IntV(2))>> \o @],
      [base EXCEPT !.answers = @ \o <<Entry(<<"S", 1>>, IntV(2))>>]}

ResponseSets(instr) ==
  IF instr = LongInstrument THEN LongResponses \cup LongExtra
  ELSE ShortResponses \cup OddResponses

\* ------------------------------------------------------------ the engine run
NoBand == [engine |-> "", approve |-> "", interpretation |-> "",
           server |-> "", serverDim |-> ""]
NoCfg == [risk_zone_max |-> 0, mixed_max |-> 0]

\* ------------------------------------------------------------ the approval step
NoFile == [exists |-> FALSE]
UnknownCase == "UNKNOWN_CASE"
NoOverride == -1
Statuses == {"REVIEW", "APPROVE", "ADJUST", "DEBRIEF"}

\* a draft file: meta.case_id and the rest of the draft
DraftFile(caseId, body) == [exists |-> TRUE, case_id |-> caseId, body |-> body]

\* draft?.draft_scoring?.dimension_scores || {}, a missing score read as 0.0
draftScoresOf(body) ==
  IF "draft_scoring" \in DOMAIN body THEN body.draft_scoring.dimension_scores
  ELSE [d \in Range(dims) |-> 0]

\* typeof draft?.draft_scoring?.aggregate_scores?.hsri === "number"
hasAggregateScores(body) == "draft_scoring" \in DOMAIN body

\* the approval template: decision.status REVIEW, every override null
templateApproval ==
  [exists |-> TRUE, status |-> "REVIEW", decision |-> "",
   overrides |-> [d \in Range(dims) |-> NoOverride]]

\* the approval the auto approval writes: `decision` is the string APPROVE,
\* there is no decision.status and no adjustments block
autoApproval ==
  [exists |-> TRUE, status |-> "", decision |-> "APPROVE",
   overrides |-> [d \in Range(dims) |-> NoOverride]]

\* approval?.decision?.status || "REVIEW"
statusOf(approval) == IF approval.status = "" THEN "REVIEW" ELSE approval.status

\* finalDimScores: the override when the status is ADJUST and it is a number
finalDimScoresOf(status, body, overrides) ==
  [d \in Range(dims) |->
     IF status = "ADJUST" /\ overrides[d] # NoOverride THEN overrides[d]
     ELSE draftScoresOf(body)[d]]

\* hsri and oi of the payload: the draft's when it has them, else the mean
\* of the final dimension scores to two decimals
payloadHsri(body, final, tieUp) ==
  IF hasAggregateScores(body) THEN body.draft_scoring.aggregate_scores.hsri
  ELSE toFixed2(SumSeq(hsriVals(final)), 100 * 4, tieUp)

payloadOi(body, final, tieUp) ==
  IF hasAggregateScores(body) THEN body.draft_scoring.aggregate_scores.oi
  ELSE toFixed2(SumSeq(oiVals(final)), 100 * 3, tieUp)

payloadOf(caseId, approval, body, tieH, tieO) ==
  LET status == statusOf(approval)
      final == finalDimScoresOf(status, body, approval.overrides)
  IN [exists |-> TRUE, case_id |-> caseId, decision_status |-> status,
      dimension_scores |-> final,
      hsri |-> payloadHsri(body, final, tieH),
      oi |-> payloadOi(body, final, tieO)]

\* the payload of the auto approval: the draft and the approval, as they are
autoPayloadOf(body) ==
  [exists |-> TRUE, case_id |-> UnknownCase, decision_status |-> "",
   dimension_scores |-> draftScoresOf(body), hsri |-> 0, oi |-> 0]

\* writePayload storing the final scores in the draft file as well
writePayloadIntoDraft(fs, caseId, payload) ==
  [fs EXCEPT !.payload_case[caseId] = payload, !.payload_default = payload,
             !.draft.body = [validation |-> @.validation,
                             final_scores |-> payload.dimension_scores]]

\* writeJson(payloadCasePath, payload); writeJson(payloadDefaultPath, payload)
writePayload(fs, caseId, payload) ==
  [fs EXCEPT !.payload_case[caseId] = payload, !.payload_default = payload]

NoFiles ==
  [draft |-> NoFile, approvals |-> [c \in {UnknownCase} |-> NoFile],
   payload_case |-> [c \in {UnknownCase} |-> NoFile], payload_default |-> NoFile]

IdleApproval == files = NoFiles /\ original = NoFile
IdleBuilds == dataDir = <<>> /\ builds = 0
IdleSession == session = NoFile /\ reply = NoFile
IdleLater == IdleApproval /\ IdleBuilds /\ IdleSession

IdleBand == bandsCfg = NoCfg /\ score = 0 /\ band = NoBand
IdleSnippet == answerText = <<>> /\ ruleKeywords = <<>> /\ snippet = NoSnippet
IdleRun ==
  /\ clock = 0 /\ draftMeta = NoMeta /\ previous = NoPrevious /\ rounding = NoRounding
  /\ responsesRead = FALSE

\* the instrument file as shipped: present, with questions and bands
InstrumentFile(exists, questions, bands) ==
  [exists |-> exists, has_questions |-> questions, has_bands |-> bands]

ValidFile == InstrumentFile(TRUE, TRUE, TRUE)

Init ==
  /\ instrument \in Instruments
  /\ instrumentFile = ValidFile
  /\ responses \in ResponseSets(instrument)
  /\ draft = NoDraft
  /\ pc = "start"
  /\ IdleBand
  /\ IdleSnippet
  /\ IdleRun
  /\ IdleLater

\* node build_draft.js <responses file>
BuildDraft ==
  /\ pc = "start"
  /\ IF ~instrumentFile.exists
     THEN /\ pc' = "exited"
          /\ UNCHANGED <<draft, clock, draftMeta, rounding, responsesRead>>
     ELSE /\ responsesRead' = TRUE
          /\ IF mainThrows(instrumentFile, responses)
             THEN /\ pc' = "threw"
                  /\ UNCHANGED <<draft, clock, draftMeta, rounding>>
             ELSE /\ pc' = "done"
                  /\ LET ds == dimensionScoresOf(instrument, answerById(answersOf(responses)))
                     IN \E tieH \in meanTieSides(hsriVals(ds)), tieO \in meanTieSides(oiVals(ds)) :
                          /\ draft' = buildDraft(instrument, responses, tieH, tieO)
                          /\ rounding' = [hsri |-> tieH, oi |-> tieO]
                  /\ clock' = clock + 1
                  /\ draftMeta' = draftMetaOf(clock')
  /\ UNCHANGED <<inputVars, previous, bandVars, snippetVars, laterVars>>

\* node build_draft.js <responses file>, the draft builder
BuildStableDraft ==
  /\ pc = "start"
  /\ pc' = "stable"
  /\ draft' = stableDraft(instrument, responses)
  /\ responsesRead' = TRUE
  /\ UNCHANGED <<inputVars, runVars, bandVars, snippetVars, laterVars>>

Next == BuildDraft \/ BuildStableDraft

Spec == Init /\ [][Next]_vars

\* node build_draft.js <responses file> once more, on the same instrument and
\* the same responses file: the draft file is overwritten. The arithmetic is
\* that of the first run, so a half-way mean falls on the same side.
RebuildDraft ==
  /\ pc = "done"
  /\ pc' = "rerun"
  /\ previous' = [draft |-> draft, meta |-> draftMeta]
  /\ draft' = buildDraft(instrument, responses, rounding.hsri, rounding.oi)
  /\ clock' \in {clock, clock + 1}
  /\ draftMeta' = draftMetaOf(clock')
  /\ UNCHANGED <<inputVars, rounding, responsesRead, bandVars, snippetVars, laterVars>>

NextRerun == BuildDraft \/ RebuildDraft

SpecRerun == Init /\ [][NextRerun]_vars

\* ------------------------------------------------------------ the instrument file
\* the instrument files a run can find: none, and the short form whole,
\* without its questions, without its bands, without both
InstrumentFiles ==
  {InstrumentFile(FALSE, FALSE, FALSE)}
  \cup {InstrumentFile(TRUE, q, b) : q, b \in BOOLEAN}

\* what the programs read from the file: `instrument.questions || []`,
\* `instrument?.expected_questions || null` (null is 0 here)
instrumentOf(file) ==
  IF ~file.exists
  THEN [ShortInstrument EXCEPT !.questions = <<>>, !.expected_questions = 0,
                               !.min_expected_seconds = 0]
  ELSE IF ~file.has_questions THEN [ShortInstrument EXCEPT !.questions = <<>>]
  ELSE ShortInstrument

InitInstrument ==
  /\ instrumentFile \in InstrumentFiles
  /\ instrument = instrumentOf(instrumentFile)
  /\ responses \in ShortResponses \cup OddResponses
  /\ draft = NoDraft
  /\ pc = "start"
  /\ IdleBand
  /\ IdleSnippet
  /\ IdleRun
  /\ IdleLater

SpecInstrument == InitInstrument /\ [][Next]_vars

\* the case of the draft, and where the auto approval files it
CaseId == "K1"
Cases == {CaseId, UnknownCase}

\* ------------------------------------------------------------ repeated builds
InitBuilds ==
  /\ instrument = ShortInstrument
  /\ instrumentFile = ValidFile
  /\ responses \in OddResponses
  /\ draft = NoDraft
  /\ pc = "start"
  /\ IdleBand
  /\ IdleSnippet
  /\ IdleRun
  /\ IdleApproval
  /\ IdleSession
  /\ dataDir = [p \in DraftPaths |-> NoFile]
  /\ builds = 0

\* node build_draft.js <responses file> (the draft builder), run for one
\* case again and again; each run falls in the second of the run before it
\* or in the next
BuildCaseDraft ==
  /\ pc \in {"start", "stable"}
  /\ builds < MaxBuilds
  /\ pc' = "stable"
  /\ draft' = stableDraft(instrument, responses)
  /\ responsesRead' = TRUE
  /\ clock' \in {clock, Min2(clock + 1, MaxClock)}
  /\ dataDir' = [dataDir EXCEPT ![uniqueDraftPath(dataDir, clock')] =
                                  DraftFile(CaseId, draft')]
  /\ builds' = builds + 1
  /\ UNCHANGED <<inputVars, draftMeta, previous, rounding, bandVars, snippetVars,
                 approvalVars, sessionVars>>

NextBuilds == BuildCaseDraft

SpecBuilds == InitBuilds /\ [][NextBuilds]_vars

\* ------------------------------------------------------------ server.js sessions
\* min_chars of an open_text question that gives none
DefaultMinChars == 15

\* flattenQuestions: q.type || "scale"; min_chars as given (-1: not given),
\* else 15 for an open_text question
flatQuestion(id, type, minChars) ==
  [id |-> id, type |-> IF type = "" THEN "scale" ELSE type,
   min_chars |-> IF minChars >= 0 THEN minChars
                 ELSE IF type = "open_text" THEN DefaultMinChars ELSE -1]

\* the questionnaire of the server, in the order it is asked
flat ==
  <<flatQuestion("F1", "", -1), flatQuestion("F2", "open_text", 2),
    flatQuestion("F3", "multiple_choice", -1), flatQuestion("F4", "open_text", -1)>>

\* flat.find((q) => q.id === questionId) || null
findFlatQuestion(questionId) ==
  LET hits == {i \in 1..Len(flat) : flat[i].id = questionId}
  IN IF hits = {} THEN NoFile
     ELSE [exists |-> TRUE, q |-> flat[CHOOSE i \in hits : \A j \in hits : i <= j]]

\* createSession
newSession ==
  [exists |-> TRUE, currentIndex |-> 0, totalQuestions |-> Len(flat),
   completed |-> FALSE, responses |-> <<>>]

\* the body of an answer request; an absent field is a value of kind "none"
NoneV == [k |-> "none", n |-> 0, s |-> <<>>]
Body(questionId, sc, tx) == [questionId |-> questionId, score |-> sc, text |-> tx]

\* why the answer handler rejects the request: "" when it accepts it
answerErrorAllowingRepeats(s, body) ==
  LET found == findFlatQuestion(body.questionId)
  IN IF body.questionId = "" THEN "Missing questionId"
     ELSE IF ~found.exists THEN "Unknown questionId"
     ELSE IF found.q.type = "open_text"
          THEN IF body.text.k # "str" THEN "Missing text"
               ELSE IF Len(trim(body.text.s)) < found.q.min_chars THEN "Please enter at least"
               ELSE ""
     ELSE IF body.score.k # "int" THEN "Missing score"
     ELSE ""

answerError(s, body) ==
  LET found == findFlatQuestion(body.questionId)
  IN IF body.questionId = "" THEN "Missing questionId"
     ELSE IF ~found.exists THEN "Unknown questionId"
     ELSE IF \E i \in 1..Len(s.responses) : s.responses[i].questionId = body.questionId
          THEN "already answered"
     ELSE IF found.q.type = "open_text"
          THEN IF body.text.k # "str" THEN "Missing text"
               ELSE IF Len(trim(body.text.s)) < found.q.min_chars THEN "Please enter at least"
               ELSE ""
     ELSE IF body.score.k # "int" THEN "Missing score"
     ELSE ""

\* the record pushed on s.responses
recordOf(body) ==
  IF findFlatQuestion(body.questionId).q.type = "open_text"
  THEN [questionId |-> body.questionId, text |-> trim(body.text.s), valueScore |-> 0]
  ELSE [questionId |-> body.questionId, text |-> <<>>, valueScore |-> body.score.n]

Reply(kind, status, done, question, error) ==
  [exists |-> TRUE, kind |-> kind, status |-> status, done |-> done,
   question |-> question, error |-> error]

\* the requests a client may send
AnswerTexts ==
  {<<" ", "a", " ">>, <<"a", "b", " ">>} \cup
  {[i \in 1..n |-> "x"] : n \in {DefaultMinChars - 1, DefaultMinChars}}

AnswerBodies ==
  {Body(id, sc, tx) :
     id \in {"", "F1", "F2", "F3", "F4", "Z9"},
     sc \in {NoneV, IntV(1), IntV(5)},
     tx \in {NoneV} \cup {StrV(t) : t \in AnswerTexts}}

InitSession ==
  /\ instrument = ShortInstrument
  /\ instrumentFile = ValidFile
  /\ responses = ResponseSet(Consent(FALSE, "missing"), Timing(FALSE, 0), <<>>)
  /\ draft = NoDraft
  /\ pc = "serving"
  /\ IdleBand
  /\ IdleSnippet
  /\ IdleRun
  /\ IdleApproval
  /\ IdleBuilds
  /\ session = newSession
  /\ reply = NoFile

\* GET /api/session/:id/next
GetNext ==
  /\ pc = "serving"
  /\ reply' = IF session.currentIndex >= Len(flat)
              THEN Reply("next", 200, TRUE, "", "")
              ELSE Reply("next", 200, FALSE, flat[session.currentIndex + 1].id, "")
  /\ UNCHANGED <<engineVars, pc, approvalVars, buildVars, session>>

\* POST /api/session/:id/answer
PostAnswer ==
  /\ pc = "serving"
  /\ \E body \in AnswerBodies :
       LET error == answerError(session, body)
       IN IF error # ""
          THEN /\ reply' = Reply("answer", 400, FALSE, body.questionId, error)
               /\ session' = session
          ELSE /\ reply' = Reply("answer", 200, FALSE, body.questionId, "")
               /\ session' = [session EXCEPT
                                !.responses = Append(@, recordOf(body)),
                                !.currentIndex = @ + 1]
  /\ UNCHANGED <<engineVars, pc, approvalVars, buildVars>>

\* POST /api/session/:id/complete
PostComplete ==
  /\ pc = "serving"
  /\ IF Len(session.responses) < Len(flat)
     THEN /\ reply' = Reply("complete", 400, FALSE, "", "Session not complete")
          /\ session' = session
     ELSE /\ reply' = Reply("complete", 200, TRUE, "", "")
          /\ session' = [session EXCEPT !.completed = TRUE]
  /\ UNCHANGED <<engineVars, pc, approvalVars, buildVars>>

NextSession == GetNext \/ PostAnswer \/ PostComplete

SpecSession == InitSession /\ [][NextSession]_vars

\* ------------------------------------------------------------ the approval workflow
\* drafts of the engine (PASS, FAIL, several dimensions scored) and of the
\* draft builder, which holds no scores
ApprovalDrafts ==
  LET answered(a) == ResponseSet(Consent(TRUE, "true"), Timing(TRUE, 900), a)
  IN {buildDraft(ShortInstrument, answered(a), FALSE, FALSE) :
        a \in {<<Entry(<<"S", 1>>, IntV(4))>>,
               <<Entry(<<"S", 1>>, IntV(MaxBadValue))>>,
               <<Entry(<<"S", 1>>, IntV(2)), Entry(<<"S", 3>>, IntV(5)),
                 Entry(<<"S", 5>>, IntV(3))>>}}
     \cup {stableDraft(ShortInstrument, answered(<<Entry(<<"S", 1>>, IntV(4))>>))}

\* what the expert may write into dimension_scores_override
OverrideSets ==
  {[d \in Range(dims) |-> NoOverride],
   [[d \in Range(dims) |-> NoOverride] EXCEPT !["DI"] = 450],
   [[d \in Range(dims) |-> NoOverride] EXCEPT !["DI"] = 450, !["MA"] = 120]}

InitApproval ==
  /\ instrument = ShortInstrument
  /\ instrumentFile = ValidFile
  /\ responses = ResponseSet(Consent(FALSE, "missing"), Timing(FALSE, 0), <<>>)
  /\ draft = NoDraft
  /\ pc = "built"
  /\ IdleBand
  /\ IdleSnippet
  /\ IdleRun
  /\ IdleBuilds
  /\ IdleSession
  /\ \E body \in ApprovalDrafts :
       files = [draft |-> DraftFile(CaseId, body),
                approvals |-> [c \in Cases |-> NoFile],
                payload_case |-> [c \in Cases |-> NoFile],
                payload_default |-> NoFile]
  /\ original = files.draft

\* node approve_case.js <draft file>
ApproveCase ==
  /\ pc \in {"built", "approve_case", "auto_approve", "expert"}
  /\ pc' = "approve_case"
  /\ LET caseId == files.draft.case_id
         approval == files.approvals[caseId]
         final == finalDimScoresOf(statusOf(approval), files.draft.body, approval.overrides)
     IN IF ~approval.exists
        THEN files' = [files EXCEPT !.approvals[caseId] = templateApproval]
        ELSE IF statusOf(approval) \notin {"APPROVE", "ADJUST"}
        THEN files' = files
        ELSE \E tieH \in (IF halfWay(SumSeq(hsriVals(final)), 400) THEN BOOLEAN ELSE {FALSE}),
                tieO \in (IF halfWay(SumSeq(oiVals(final)), 300) THEN BOOLEAN ELSE {FALSE}) :
               files' = writePayload(files, caseId,
                                     payloadOf(caseId, approval, files.draft.body, tieH, tieO))
  /\ UNCHANGED <<engineVars, original, buildVars, sessionVars>>

\* the auto approval: node approve_case.js <draft file> [--auto]
AutoApprove ==
  /\ pc \in {"built", "approve_case", "auto_approve", "expert"}
  /\ pc' = "auto_approve"
  /\ files' = [files EXCEPT !.approvals[UnknownCase] = autoApproval,
                            !.payload_default = autoPayloadOf(files.draft.body)]
  /\ UNCHANGED <<engineVars, original, buildVars, sessionVars>>

\* the expert edits the approval file of the case
ExpertDecides ==
  /\ pc \in {"built", "approve_case", "auto_approve", "expert"}
  /\ files.approvals[CaseId].exists
  /\ pc' = "expert"
  /\ \E st \in Statuses, ov \in OverrideSets :
       files' = [files EXCEPT !.approvals[CaseId] =
                                [exists |-> TRUE, status |-> st, decision |-> "",
                                 overrides |-> ov]]
  /\ UNCHANGED <<engineVars, original, buildVars, sessionVars>>

NextApproval == ApproveCase \/ AutoApprove \/ ExpertDecides

SpecApproval == InitApproval /\ [][NextApproval]_vars


\* ------------------------------------------------------------ the band functions
BandConfigs ==
  {[risk_zone_max |-> lo, mixed_max |-> hi] :
     lo \in {250, 279, 300}, hi \in {300, 330, 350}}

MinBandScore == 240
BandScores == {0} \cup MinBandScore..MaxBandScore

InitBand ==
  /\ instrument = ShortInstrument
  /\ instrumentFile = ValidFile
  /\ responses = ResponseSet(Consent(FALSE, "missing"), Timing(FALSE, 0), <<>>)
  /\ draft = NoDraft
  /\ pc = "band"
  /\ bandsCfg \in BandConfigs
  /\ score = 0
  /\ band = NoBand
  /\ IdleSnippet
  /\ IdleRun
  /\ IdleLater

\* one score banded by the draft engine with the supplied thresholds, by the
\* approval step and by the server's report scoring
ScoreBand(sc) ==
  /\ pc = "band"
  /\ score' = sc
  /\ band' = [engine |-> bandFor(sc, bandsCfg),
              approve |-> approveBandFor(sc),
              interpretation |-> dimensionInterpretationBand(sc),
              server |-> bandForScore(sc),
              serverDim |-> interpretationForDim(sc)]
  /\ UNCHANGED <<inputVars, draft, pc, bandsCfg, runVars, responsesRead, snippetVars, laterVars>>

NextBand == \E sc \in BandScores : ScoreBand(sc)

SpecBand == InitBand /\ [][NextBand]_vars

\* ------------------------------------------------------------ the snippets
MaxTextLen == 170      \* longest answer text handed to extractSnippet
LongTextLen == 150     \* shortest of the long answer texts
ShortTextLen == 8      \* longest of the short answer texts
SnippetTextLens == 0..ShortTextLen \cup LongTextLen..MaxTextLen

\* n characters of filler with "Skip" at 0-based position p (p < 0: nowhere)
TextWith(n, p) ==
  [i \in 1..n |->
     IF p >= 0 /\ i - 1 >= p /\ i - 1 < p + 4 THEN TxtSkipShort[i - p] ELSE "x"]

Blank(n) == [i \in 1..n |-> " "]

SnippetTexts ==
  {TextWith(n, p) : n \in SnippetTextLens, p \in -1..(MaxTextLen - 4)}
  \cup {Blank(n) : n \in 0..3}
  \cup {TxtSkipDeadline, TxtBypass}

SnippetKeywords == {<<KwSkip>>, <<KwDeadline, KwSkip>>, <<KwBypass>>}

InitSnippet ==
  /\ instrument = ShortInstrument
  /\ instrumentFile = ValidFile
  /\ responses = ResponseSet(Consent(FALSE, "missing"), Timing(FALSE, 0), <<>>)
  /\ draft = NoDraft
  /\ pc = "snippet"
  /\ IdleBand
  /\ IdleRun
  /\ IdleLater
  /\ answerText \in SnippetTexts
  /\ ruleKeywords \in SnippetKeywords
  /\ snippet = NoSnippet

\* extractSnippet(a.response, keywords, 160)
ExtractSnippet ==
  /\ pc = "snippet"
  /\ pc' = "snipped"
  /\ snippet' = extractSnippet(answerText, ruleKeywords, SnippetMax)
  /\ UNCHANGED <<inputVars, draft, bandVars, runVars, responsesRead, answerText,
                 ruleKeywords, laterVars>>

NextSnippet == ExtractSnippet

SpecSnippet == InitSnippet /\ [][NextSnippet]_vars

\* ============================================================ properties
Done == pc = "done"

\* the tier a band label names: 1 risk, 2 mixed, 3 strong
Tier(label) ==
  CASE label = "Risk Zone" -> 1
    [] label \in {"Mixed / Context-dependent", "Mixed"} -> 2
    [] label \in {"Functional Strength", "Strong / Stable", "Strong"} -> 3
    [] OTHER -> 0

\* the answer entries of the response set that are answers at all
RealAnswers ==
  IF responses.isNull \/ ~responses.answersIsArray THEN {}
  ELSE {e \in Range(responses.answers) : ~e.isNull}

QuestionSet == Range(instrument.questions)

IsValidLikertValue(v) == v.k = "int" /\ v.n \in 1..5

\* the valid numeric-scale answers given to questions of dimension d
ValidLikertOf(d) ==
  {e \in RealAnswers :
     \E q \in QuestionSet : /\ q.id = e.question_id /\ q.type = "likert_5"
                            /\ q.dimension = d /\ IsValidLikertValue(e.response)}

NoItemsWarned(d) ==
  \E i \in 1..Len(draft.validation.soft_warnings) :
     /\ draft.validation.soft_warnings[i].kind = "No likert_5 items for dimension"
     /\ draft.validation.soft_warnings[i].ref = <<d, 0>>

\* C1: every dimension of the instrument has one score entry in the draft; a
\* dimension without a valid numeric-scale answer has the sentinel 0.0 and its
\* "no items" warning, a dimension with one has neither.
C1_EveryDimensionScored ==
  Done =>
    \A d \in Range(instrument.dimensions) :
       /\ d \in DOMAIN draft.draft_scoring.dimension_scores
       /\ IF ValidLikertOf(d) = {}
          THEN draft.draft_scoring.dimension_scores[d] = 0 /\ NoItemsWarned(d)
          ELSE draft.draft_scoring.dimension_scores[d] # 0 /\ ~NoItemsWarned(d)

\* the answers whose value fails the type constraint of their question
NonConforming ==
  {e \in RealAnswers :
     \E q \in QuestionSet : q.id = e.question_id /\ ~validateAnswerType(e, q)}

HardErrorFor(id) ==
  \E i \in 1..Len(draft.validation.hard_errors) :
     /\ draft.validation.hard_errors[i].kind = "Invalid type/value"
     /\ draft.validation.hard_errors[i].ref = id

\* the response set without its non-conforming answers
ConformingOnly ==
  [responses EXCEPT !.answers = SelectSeq(@, LAMBDA e : e \notin NonConforming)]

\* the downstream results of a draft
Downstream(d) ==
  <<d.draft_scoring.dimension_scores,
    d.validation.flag_straight_lining, d.validation.flag_low_variance,
    d.consistency_checks.items, d.red_flags.items>>

\* C2: an answer that fails its question's type constraint is a hard error
\* for that question and changes none of the downstream results: scores,
\* pattern flags, consistency items and red-flag items are those of the
\* response set without it.
C2_NonConformingExcluded ==
  Done =>
    /\ \A e \in NonConforming : HardErrorFor(e.question_id)
    /\ Downstream(draft) = Downstream(buildDraft(instrument, ConformingOnly, TRUE, TRUE))

\* C3: with a valid instrument the engine ends with a draft for every
\* response set, and the draft is FAIL exactly when hard_errors is non-empty.
C3_AlwaysADraft ==
  pc \in {"done", "threw"} =>
    /\ Done
    /\ draft.validation.status \in {"PASS", "FAIL"}
    /\ (draft.validation.status = "FAIL") <=> (draft.validation.hard_errors # <<>>)

ConsentNotGranted ==
  responses.consent.present /\ responses.consent.terms_accepted # "true"

RequiredUnanswered ==
  \E q \in QuestionSet : q.required /\ ~\E e \in RealAnswers : e.question_id = q.id

\* C4: hard_errors is non-empty exactly when consent is carried and not
\* true, a required question is unanswered, or an answer fails its type
\* constraint; timing, pattern, consistency and red-flag results add none.
C4_HardErrorCauses ==
  Done =>
    (draft.validation.hard_errors # <<>>)
      <=> (ConsentNotGranted \/ RequiredUnanswered \/ NonConforming # {})

\* a clean response set that is too fast, straight-lined, mismatching, with an
\* incomplete consistency set and high stakes, and still no hard error
C4_SoftOnlyWitness ==
  /\ Done
  /\ draft.validation.hard_errors = <<>>
  /\ draft.validation.flag_too_fast
  /\ draft.validation.flag_straight_lining
  /\ draft.consistency_checks.status = "ATTENTION"
  /\ draft.red_flags.high_stakes.status = "ON"
  /\ \E i \in 1..Len(draft.validation.soft_warnings) :
        draft.validation.soft_warnings[i].kind = "Consistency set incomplete"

\* C5: the confidence score lies in [0, 1] and the level follows from it:
\* High from 0.80, Medium from 0.65 to below 0.80, Caution below 0.65.
C5_ConfidenceLevel ==
  Done =>
    /\ draft.confidence.score \in 0..100
    /\ draft.confidence.level =
         (IF draft.confidence.score >= 80 THEN "High"
          ELSE IF draft.confidence.score >= 65 THEN "Medium"
          ELSE "Caution")

\* a draft whose score is exactly the lower boundary of Medium
C5_BoundaryWitness ==
  Done /\ draft.confidence.score = 65 /\ draft.confidence.level = "Medium"

MismatchItems == SelectSeq(draft.consistency_checks.items, LAMBDA it : it.result = "MISMATCH")

ShortOpenTextWarned ==
  \E i \in 1..Len(draft.validation.soft_warnings) :
     draft.validation.soft_warnings[i].kind = "Open-text length low"

\* the penalties of the claim, in its order, each with its driver
AppliedPenalties ==
  (IF draft.validation.flag_too_fast
   THEN <<[p |-> 15, d |-> Driver("Too fast completion time", 0)]>> ELSE <<>>)
  \o (IF draft.validation.flag_straight_lining
      THEN <<[p |-> 15, d |-> Driver("Straight-lining pattern detected", 0)]>>
      ELSE IF draft.validation.flag_low_variance
      THEN <<[p |-> 10, d |-> Driver("Low variance pattern detected", 0)]>> ELSE <<>>)
  \o (IF Len(MismatchItems) > 0
      THEN <<[p |-> IF 10 * Len(MismatchItems) < 30 THEN 10 * Len(MismatchItems) ELSE 30,
              d |-> Driver("Consistency mismatch count", Len(MismatchItems))]>> ELSE <<>>)
  \o (IF ShortOpenTextWarned
      THEN <<[p |-> 10, d |-> Driver("Open-text evidence too short", 0)]>> ELSE <<>>)

\* C6: the score is 1.00 minus the applied penalties, clamped to [0, 1]; the
\* drivers are one per applied penalty, in order, and none exactly at 1.00.
C6_PenaltiesAndDrivers ==
  Done =>
    LET total == SumSeq([i \in 1..Len(AppliedPenalties) |-> AppliedPenalties[i].p])
    IN /\ draft.confidence.score = Max2(0, Min2(100, 100 - total))
       /\ draft.confidence.drivers = [i \in 1..Len(AppliedPenalties) |-> AppliedPenalties[i].d]
       /\ (draft.confidence.drivers = <<>>) <=> (draft.confidence.score = 100)

\* every penalty applied at once, the mismatch penalty at its cap
C6_AllPenaltiesWitness ==
  /\ Done
  /\ Len(draft.confidence.drivers) = 4
  /\ Len(MismatchItems) > 3
  /\ draft.confidence.score = 30

Scored == pc = "band" /\ band # NoBand

\* C7: bandFor gives Risk Zone up to the lower threshold, Mixed above it up
\* to the upper threshold, Strong above that, and a higher score never gets
\* a lower tier.
C7_BandPartition ==
  /\ [](Scored =>
          band.engine =
            (IF score <= bandsCfg.risk_zone_max THEN "Risk Zone"
             ELSE IF score <= bandsCfg.mixed_max THEN "Mixed / Context-dependent"
             ELSE "Functional Strength"))
  /\ [][(Scored /\ score' >= score) => Tier(band'.engine) >= Tier(band.engine)]_vars

\* a score exactly at the lower threshold, banded Risk Zone
C7_LowerCutWitness ==
  Scored /\ score = bandsCfg.risk_zone_max /\ band.engine = "Risk Zone"

\* C8: the approval step and the server's report scoring give every score
\* the tier bandFor gives it with the supplied thresholds.
C8_SameTierEverywhere ==
  Scored =>
    /\ Tier(band.approve) = Tier(band.engine)
    /\ Tier(band.interpretation) = Tier(band.engine)
    /\ Tier(band.server) = Tier(band.engine)
    /\ Tier(band.serverDim) = Tier(band.engine)

\* the non-sentinel scores among the named dimensions
NonSentinel(names) ==
  LET ds == draft.draft_scoring.dimension_scores
      kept == SelectSeq(names, LAMBDA d : ds[d] # 0)
  IN [i \in 1..Len(kept) |-> ds[kept[i]]]

\* x is S / n rounded to the nearest unit
NearestTo(x, S, n) == 2 * (x * n - S) <= n /\ 2 * (S - x * n) <= n

HsriDims == <<"DI", "MA", "PR", "ED">>
OiDims == <<"DI", "RP", "AC">>

\* C9: HSRI is the two-decimal mean of the non-sentinel scores among DI, MA,
\* PR, ED and OI that of the non-sentinel scores among DI, RP, AC.
C9_CompositeMeans ==
  Done =>
    /\ NonSentinel(HsriDims) # <<>> =>
         NearestTo(draft.draft_scoring.aggregate_scores.hsri,
                   SumSeq(NonSentinel(HsriDims)), Len(NonSentinel(HsriDims)))
    /\ NonSentinel(OiDims) # <<>> =>
         NearestTo(draft.draft_scoring.aggregate_scores.oi,
                   SumSeq(NonSentinel(OiDims)), Len(NonSentinel(OiDims)))

\* a dimension without data next to one with data, in both composites
C9_SentinelSkippedWitness ==
  /\ Done
  /\ draft.draft_scoring.dimension_scores["DI"] = 0
  /\ draft.draft_scoring.dimension_scores["MA"] = 400
  /\ draft.draft_scoring.dimension_scores["RP"] = 300
  /\ draft.draft_scoring.aggregate_scores.hsri = 400
  /\ draft.draft_scoring.aggregate_scores.oi = 300

\* C10: a composite whose constituents are all sentinel is itself the
\* sentinel and has no band; it is never in Risk Zone.
C10_NoBandWithoutData ==
  Done =>
    /\ NonSentinel(HsriDims) = <<>> =>
         /\ draft.draft_scoring.aggregate_scores.hsri = 0
         /\ Tier(draft.draft_scoring.aggregate_bands.hsri) = 0
    /\ NonSentinel(OiDims) = <<>> =>
         /\ draft.draft_scoring.aggregate_scores.oi = 0
         /\ Tier(draft.draft_scoring.aggregate_bands.oi) = 0

\* ------------------------------------------------------------ consistency sets
\* the answer given to question id conforms to the question's type
AnsweredValid(id) ==
  \E e \in RealAnswers :
     /\ e.question_id = id
     /\ \E q \in QuestionSet : q.id = id /\ validateAnswerType(e, q)

\* the probe of a set: the question cc_id names, else the first CC_ question
ProbeIdOf(set) ==
  IF \E q \in QuestionSet : q.id = set.cc_id THEN set.cc_id
  ELSE LET cc == SelectSeq(set.question_ids, startsWithCC)
       IN IF cc # <<>> THEN cc[1] ELSE NoRef

ReferencedIds(set) ==
  Range(set.question_ids) \cup (IF ProbeIdOf(set) # NoRef THEN {ProbeIdOf(set)} ELSE {})

HasRecord(set) ==
  \E i \in 1..Len(draft.consistency_checks.items) :
     draft.consistency_checks.items[i].cc_id = set.cc_id

SetWarned(set) ==
  \E i \in 1..Len(draft.validation.soft_warnings) :
     /\ draft.validation.soft_warnings[i].kind = "Consistency set incomplete"
     /\ draft.validation.soft_warnings[i].ref = set.cc_id

\* C11: a consistency set has a result record only when every question it
\* references, its probe included, has a present and valid answer; every
\* other set has no record and a soft warning.
C11_EvaluatedOnlyWhenValid ==
  Done =>
    \A set \in Range(instrument.consistency_sets) :
       LET allValid == \A id \in ReferencedIds(set) : AnsweredValid(id)
       IN /\ HasRecord(set) => allValid
          /\ ~allValid => (~HasRecord(set) /\ SetWarned(set))

\* the free-text answers given to the questions of the set other than its probe
NonProbeTexts(set) ==
  {e.response.s : e \in {a \in RealAnswers :
                            /\ a.question_id \in Range(set.question_ids)
                            /\ a.question_id # ProbeIdOf(set)
                            /\ a.response.k = "str"}}

ExceptionLanguageIn(set) ==
  \E t \in NonProbeTexts(set) : \E k \in Range(ExceptionKeywords) :
     \E i \in 0..(Len(t) - Len(k)) : SubSeq(toLowerCase(t), i + 1, i + Len(k)) = k

\* the numeric value of the probe answer is at least 4
ProbeHigh(set) ==
  \E e \in RealAnswers :
     e.question_id = ProbeIdOf(set) /\ e.response.k = "int" /\ e.response.n >= 4

SetOfItem(it) ==
  CHOOSE set \in Range(instrument.consistency_sets) : set.cc_id = it.cc_id

\* C12: an evaluated consistency set is MISMATCH with severity MEDIUM exactly
\* when the lower-cased free text of its non-probe questions holds an
\* exception-language keyword and the probe's numeric value is at least 4;
\* otherwise it is OK.
C12_MismatchRule ==
  Done =>
    \A i \in 1..Len(draft.consistency_checks.items) :
       LET it == draft.consistency_checks.items[i]
       IN IF ExceptionLanguageIn(SetOfItem(it)) /\ ProbeHigh(SetOfItem(it))
          THEN it.result = "MISMATCH" /\ it.severity = "MEDIUM"
          ELSE it.result = "OK"

\* "bypass" in the free text: the probe at the threshold 4 gives MISMATCH,
\* a probe of 3 and a probe answered in words give OK
C12_ProbeBoundaryWitness ==
  /\ Done
  /\ \E i, j \in 1..Len(draft.consistency_checks.items) :
        LET a == draft.consistency_checks.items[i]
            b == draft.consistency_checks.items[j]
        IN /\ ExceptionLanguageIn(SetOfItem(a)) /\ ExceptionLanguageIn(SetOfItem(b))
           /\ a.result = "MISMATCH" /\ b.result = "OK"
           /\ \E e \in RealAnswers :
                 e.question_id = ProbeIdOf(SetOfItem(a)) /\ e.response = IntV(4)
           /\ \E e \in RealAnswers :
                 e.question_id = ProbeIdOf(SetOfItem(b)) /\ e.response = IntV(3)

\* ------------------------------------------------------------ red flags
Contains(t, k) == \E i \in 0..(Len(t) - Len(k)) : SubSeq(t, i + 1, i + Len(k)) = k

\* the keyword as the rule writes it, or lower-cased
KeywordForm(k, folded) == IF folded THEN toLowerCase(k) ELSE k

\* the referenced questions whose answer's lower-cased text holds a keyword
MatchedIds(rule, folded) ==
  SelectSeq(rule.open_text_question_ids,
            LAMBDA qid :
              \E e \in RealAnswers :
                 /\ e.question_id = qid /\ e.response.k = "str"
                 /\ \E k \in Range(rule.keywords_any) :
                       Contains(toLowerCase(e.response.s), KeywordForm(k, folded)))

PresentIds ==
  LET present == SelectSeq(draft.red_flags.items, LAMBDA it : it.status = "PRESENT")
  IN [i \in 1..Len(present) |-> present[i].rf_id]

RedFlagsFollow(folded) ==
  /\ Len(draft.red_flags.items) = Len(instrument.red_flag_rules)
  /\ \A i \in 1..Len(instrument.red_flag_rules) :
        LET rule == instrument.red_flag_rules[i]
            it == draft.red_flags.items[i]
        IN /\ it.rf_id = rule.rf_id
           /\ it.status = (IF MatchedIds(rule, folded) # <<>> THEN "PRESENT" ELSE "NONE")
           /\ it.question_ids = MatchedIds(rule, folded)
  /\ draft.red_flags.high_stakes.triggers = PresentIds

\* C13 as stated: a rule is PRESENT exactly when a referenced question's
\* lower-cased answer holds one of the rule's keywords as the rule writes it;
\* its evidence ids are the questions that matched and the triggers are the
\* PRESENT rules.
C13_KeywordsAsWritten ==
  Done => RedFlagsFollow(FALSE)

\* C13: a rule is PRESENT exactly when a referenced question's lower-cased
\* answer holds the lower-cased form of one of the rule's keywords, NONE
\* otherwise; its evidence ids are the questions that matched and the
\* triggers are the PRESENT rules.
C13_KeywordsCaseFolded ==
  Done => RedFlagsFollow(TRUE)

\* a rule whose keyword is written with a capital is PRESENT, and a rule
\* with two referenced questions has only the one that matched as evidence
C13_CapitalKeywordWitness ==
  /\ Done
  /\ \E i, j \in 1..Len(instrument.red_flag_rules) :
        /\ \E k \in Range(instrument.red_flag_rules[i].keywords_any) : toLowerCase(k) # k
        /\ draft.red_flags.items[i].status = "PRESENT"
        /\ Len(instrument.red_flag_rules[j].open_text_question_ids) = 2
        /\ Len(draft.red_flags.items[j].question_ids) = 1

\* ------------------------------------------------------------ snippets
Snipped == pc = "snipped" /\ ~snippet.isNull

\* C14: the snippet text, ellipsis markers included, is no longer than the
\* maximum snippet length, and for a text longer than the maximum it is
\* never the whole text.
C14_SnippetBounded ==
  Snipped =>
    /\ Len(snippet.text) <= SnippetMax
    /\ Len(answerText) > SnippetMax => snippet.text # answerText

\* the keywords of the list that occur in the lower-cased text
Occurring == {j \in 1..Len(ruleKeywords) :
                Contains(toLowerCase(answerText), toLowerCase(ruleKeywords[j]))}

\* the snippet the claim describes for a text t and a matched keyword kw:
\* the window around the first occurrence of kw, with its ellipses
WindowSnippet(t, kw) ==
  LET lower == toLowerCase(t)
      hits == {i \in 0..(Len(t) - Len(kw)) : SubSeq(lower, i + 1, i + Len(kw)) = kw}
      at == CHOOSE i \in hits : \A h \in hits : i <= h
      from == IF at - 40 > 0 THEN at - 40 ELSE 0
      to == IF at + 120 < Len(t) THEN at + 120 ELSE Len(t)
  IN (IF from > 0 THEN <<".", ".", ".">> ELSE <<>>)
     \o SubSeq(t, from + 1, to)
     \o (IF to < Len(t) THEN <<".", ".", ".">> ELSE <<>>)

\* the snippet the claim describes for a text without a keyword
LeadingSnippet(t) ==
  IF Len(t) > 160 THEN SubSeq(t, 1, 160) \o <<".", ".", ".">> ELSE t

\* C15: with a keyword in the text the snippet holds the matched keyword and
\* is the window from 40 characters before to 120 after the match, clipped to
\* the text, with a leading ellipsis exactly when text precedes the window and
\* a trailing one exactly when text follows it; without a keyword it is the
\* first 160 characters, with a trailing ellipsis exactly when text was cut.
C15_SnippetWindow ==
  Snipped =>
    IF Occurring # {}
    THEN LET kw == toLowerCase(ruleKeywords[CHOOSE j \in Occurring :
                                               \A h \in Occurring : j <= h])
         IN /\ Contains(toLowerCase(snippet.text), kw)
            /\ snippet.text = WindowSnippet(answerText, kw)
    ELSE snippet.text = LeadingSnippet(answerText)

\* a match far enough from both ends that the window is cut on both sides
C15_BothEllipsesWitness ==
  /\ Snipped
  /\ Occurring # {}
  /\ Len(snippet.text) = 166
  /\ SubSeq(snippet.text, 1, 3) = <<".", ".", ".">>
  /\ SubSeq(snippet.text, 164, 166) = <<".", ".", ".">>
  /\ SubSeq(snippet.text, 44, 47) = <<"S", "k", "i", "p">>

\* ------------------------------------------------------------ high stakes
\* the rules of the instrument whose item in the draft is PRESENT
TriggeredRules ==
  {i \in 1..Len(instrument.red_flag_rules) : draft.red_flags.items[i].status = "PRESENT"}

\* C16: high-stakes is ON exactly when a triggered rule has HIGH severity or
\* at least two rules triggered, and OFF otherwise.
C16_HighStakesRule ==
  Done =>
    draft.red_flags.high_stakes.status =
      (IF \/ \E i \in TriggeredRules :
               instrument.red_flag_rules[i].severity_if_triggered = "HIGH"
          \/ Cardinality(TriggeredRules) >= 2
       THEN "ON" ELSE "OFF")

\* two rules of MEDIUM severity triggered and none of HIGH severity: ON
C16_TwoMediumWitness ==
  /\ Done
  /\ Cardinality(TriggeredRules) = 2
  /\ \A i \in TriggeredRules : draft.red_flags.items[i].severity = "MEDIUM"
  /\ draft.red_flags.high_stakes.status = "ON"

\* one rule of MEDIUM severity triggered alone: OFF
C16_OneMediumOff ==
  /\ Done
  /\ Cardinality(TriggeredRules) = 1
  /\ \A i \in TriggeredRules : draft.red_flags.items[i].severity = "MEDIUM"
  /\ draft.red_flags.high_stakes.status = "OFF"

\* one rule of HIGH severity triggered alone: ON
C16_OneHighOn ==
  /\ Done
  /\ Cardinality(TriggeredRules) = 1
  /\ \A i \in TriggeredRules : draft.red_flags.items[i].severity = "HIGH"
  /\ draft.red_flags.high_stakes.status = "ON"

\* ------------------------------------------------------------ handoff
\* C17: auto_generate_payload_allowed is true only when high-stakes is OFF,
\* the confidence level is High and hard_errors is empty; a FAIL draft never
\* permits it.
C17_AutoPublishGuard ==
  Done =>
    /\ draft.handoff.auto_generate_payload_allowed =>
         /\ draft.red_flags.high_stakes.status = "OFF"
         /\ draft.confidence.level = "High"
         /\ draft.validation.hard_errors = <<>>
    /\ draft.validation.status = "FAIL" => ~draft.handoff.auto_generate_payload_allowed

\* a draft that permits auto-publication
C17_AllowedWitness ==
  /\ Done
  /\ draft.handoff.auto_generate_payload_allowed
  /\ draft.validation.status = "PASS"
  /\ draft.confidence.level = "High"

\* the reason names the condition that decided the action
ReasonFor(action, highStakes, hardErrors) ==
  IF action = "DEBRIEF" THEN "High-stakes triggers present."
  ELSE IF hardErrors # <<>> THEN "Hard validation errors present."
  ELSE "No hard blockers; expert review recommended."

\* C18: a draft that does not permit auto-publication recommends DEBRIEF
\* when high-stakes is ON and REVIEW when it is OFF, and its reason names the
\* condition that decided the action.
C18_ManualAction ==
  (Done /\ ~draft.handoff.auto_generate_payload_allowed) =>
    /\ draft.handoff.recommended_expert_action =
         (IF draft.red_flags.high_stakes.status = "ON" THEN "DEBRIEF" ELSE "REVIEW")
    /\ draft.handoff.recommended_reason =
         ReasonFor(draft.handoff.recommended_expert_action,
                   draft.red_flags.high_stakes.status, draft.validation.hard_errors)

\* ------------------------------------------------------------ pattern checks
\* the values of the valid answers to numeric-scale questions, by question
ValidLikertAnswers ==
  {e \in RealAnswers :
     /\ IsValidLikertValue(e.response)
     /\ \E q \in QuestionSet : q.id = e.question_id /\ q.type = "likert_5"}

\* C19: the straight-lining flag is set exactly when there are at least 10
\* valid numeric-scale answers and all share one value, and whenever it is
\* set the low-variance flag is set too.
C19_StraightLining ==
  Done =>
    /\ draft.validation.flag_straight_lining <=>
         /\ Cardinality(ValidLikertAnswers) >= 10
         /\ Cardinality({e.response.n : e \in ValidLikertAnswers}) = 1
    /\ draft.validation.flag_straight_lining => draft.validation.flag_low_variance

\* ------------------------------------------------------------ soft conditions
\* the warnings list of the draft: soft_warnings in the engine's draft,
\* warnings in the builder's
WarningsOfDraft ==
  IF pc = "done" THEN draft.validation.soft_warnings ELSE draft.validation.warnings

WarnedAs(kind) ==
  \E i \in 1..Len(WarningsOfDraft) : WarningsOfDraft[i].kind = kind

\* an open-text answer shorter than its question's minimum length
ShortOpenText ==
  \E e \in RealAnswers : \E q \in QuestionSet :
     /\ q.id = e.question_id /\ q.type = "open_text" /\ q.min_chars > 0
     /\ e.response.k = "str" /\ Len(trim(e.response.s)) < q.min_chars

\* an answer count different from the instrument's expected count
CountDiffers ==
  /\ ~responses.isNull /\ responses.answersIsArray
  /\ instrument.expected_questions > 0
  /\ Len(responses.answers) # instrument.expected_questions

\* the durations the response file carries
DurationsCarried ==
  IF responses.isNull THEN {}
  ELSE {d.duration_seconds : d \in {x \in {responses.timing, responses.meta_duration,
                                              responses.top_duration} : x.present}}

\* a total duration below the instrument's configured minimum
DurationBelowMinimum ==
  /\ instrument.min_expected_seconds > 0
  /\ DurationsCarried # {}
  /\ \A d \in DurationsCarried : d < instrument.min_expected_seconds

\* a consistency set with a missing answer
SetWithMissingAnswer ==
  \E set \in Range(instrument.consistency_sets) :
     \E id \in Range(set.question_ids) : ~\E e \in RealAnswers : e.question_id = id

\* C20: a short open-text answer, an answer count different from the expected
\* count, a duration below the minimum and a consistency set with a missing
\* answer each add an entry to the draft's warnings, and none adds a hard
\* error.
C20_SoftConditionsWarned ==
  pc \in {"done", "stable"} =>
    /\ ShortOpenText => WarnedAs("Open-text length low")
    /\ CountDiffers => WarnedAs("Expected answers but got")
    /\ DurationBelowMinimum => WarnedAs("Duration is below minimum")
    /\ SetWithMissingAnswer => WarnedAs("Consistency set incomplete")
    /\ draft.validation.hard_errors # <<>> =>
         (ConsentNotGranted \/ RequiredUnanswered \/ NonConforming # {})

\* what the engine does of the claim: the two conditions it warns about
EngineSoftWarned ==
  Done =>
    /\ ShortOpenText => WarnedAs("Open-text length low")
    /\ SetWithMissingAnswer => WarnedAs("Consistency set incomplete")
    /\ ~WarnedAs("Expected answers but got")
    /\ ~WarnedAs("Duration is below minimum")

\* what the builder does of the claim: the two conditions it warns about
BuilderSoftWarned ==
  pc = "stable" =>
    /\ (CountDiffers /\ responses.answers # <<>>) => WarnedAs("Expected answers but got")
    /\ ~WarnedAs("Open-text length low")
    /\ ~WarnedAs("Consistency set incomplete")

EncodedFor(id) ==
  \E m \in Range(draft.validation.hard_errors) \cup Range(draft.validation.soft_warnings) :
    m.ref = id

AnsweredUnknown ==
  {a \in Range(answersOf(responses)) :
     ~a.isNull /\ a.question_id \notin {q.id : q \in Range(instrument.questions)}}

\* C23: with a valid instrument the engine throws on no response data: it
\* ends with a draft, and the draft holds a hard error or a soft warning for
\* every answer to an unknown question and every value of the wrong type.
C23_MalformedDataEncoded ==
  pc \in {"done", "threw"} =>
    /\ Done
    /\ \A a \in AnsweredUnknown : EncodedFor(a.question_id)
    /\ \A a \in NonConforming : EncodedFor(a.question_id)

\* ------------------------------------------------------------ answer order
\* the answers list with the entries at i and j exchanged
Exchanged(answers, i, j) ==
  [k \in 1..Len(answers) |->
     IF k = i THEN answers[j] ELSE IF k = j THEN answers[i] ELSE answers[k]]

\* the drafts the engine can write for a response set
DraftsOf(resp) ==
  LET ds == dimensionScoresOf(instrument, answerById(answersOf(resp)))
  IN {buildDraft(instrument, resp, tieH, tieO) :
        tieH \in meanTieSides(hsriVals(ds)), tieO \in meanTieSides(oiVals(ds))}

\* C28: the draft is the one the engine writes for the response set with any
\* two of its answers exchanged, two answers to one question included.
C28_OrderIrrelevant ==
  Done =>
    \A i, j \in 1..Len(responses.answers) :
      (i < j /\ responses.answersIsArray) =>
        draft \in DraftsOf([responses EXCEPT !.answers = Exchanged(@, i, j)])

\* ------------------------------------------------------------ malformed instrument
Malformed ==
  ~instrumentFile.exists \/ ~instrumentFile.has_questions \/ ~instrumentFile.has_bands

\* C22: with the instrument file missing, or without questions or bands,
\* the run ends in a failure, without having read the responses file and
\* without a draft.
C22_MalformedInstrumentAborts ==
  (pc # "start" /\ Malformed) =>
    /\ pc \in {"exited", "threw"}
    /\ ~responsesRead
    /\ draft = NoDraft

\* ------------------------------------------------------------ the approval step
\* C24: after any sequence of approval runs, whatever the status and the
\* overrides of the approval, the draft file holds what the build wrote.
C24_DraftNeverChanged ==
  files.draft = original

\* a payload written under ADJUST whose scores differ from the draft's
C24_AdjustedPayloadWitness ==
  /\ files.payload_case[CaseId].exists
  /\ files.payload_case[CaseId].decision_status = "ADJUST"
  /\ files.payload_case[CaseId].dimension_scores # draftScoresOf(original.body)

PayloadsOf(fs) == <<fs.payload_case, fs.payload_default>>

DecisionTaken(fs) ==
  /\ fs.approvals[fs.draft.case_id].exists
  /\ statusOf(fs.approvals[fs.draft.case_id]) \in {"APPROVE", "ADJUST"}

\* C25: a step writes a payload only when the approval record of the draft's
\* case exists with status APPROVE or ADJUST; a run of the approval step
\* without an approval record only creates the template in status REVIEW,
\* and with status REVIEW or DEBRIEF it writes nothing.
C25_PayloadNeedsDecision ==
  [][/\ PayloadsOf(files') # PayloadsOf(files) => DecisionTaken(files)
     /\ (pc' = "approve_case" /\ ~files.approvals[CaseId].exists) =>
          /\ PayloadsOf(files') = PayloadsOf(files)
          /\ files'.approvals[CaseId].status = "REVIEW"
     /\ (pc' = "approve_case" /\ files.approvals[CaseId].exists /\ ~DecisionTaken(files)) =>
          files' = files]_vars

\* the two-decimal means of the final dimension scores
MeansOf(vals, n) == {toFixed2(SumSeq(vals), 100 * n, t) : t \in BOOLEAN}

AdjustedWithOverride(fs) ==
  /\ fs.approvals[CaseId].exists
  /\ statusOf(fs.approvals[CaseId]) = "ADJUST"
  /\ \E d \in Range(dims) : fs.approvals[CaseId].overrides[d] # NoOverride

\* C27: a payload written under ADJUST with a numeric override reports
\* composites that are the means of the final dimension scores it reports:
\* HSRI of DI, MA, PR, ED and OI of DI, RP, AC.
C27_CompositesFollowOverrides ==
  [][(pc' = "approve_case" /\ AdjustedWithOverride(files)) =>
       LET payload == files'.payload_case[CaseId]
       IN /\ payload.hsri \in MeansOf(hsriVals(payload.dimension_scores), 4)
          /\ payload.oi \in MeansOf(oiVals(payload.dimension_scores), 3)]_vars

\* ------------------------------------------------------------ draft files
\* C26: every build creates a draft file at a path where none existed, and
\* every draft file written before keeps its content.
C26_NoDraftOverwritten ==
  [][builds' = builds + 1 =>
       \E p \in DraftPaths :
         /\ ~dataDir[p].exists
         /\ dataDir'[p].exists
         /\ \A q \in DraftPaths \ {p} : dataDir'[q] = dataDir[q]]_vars

\* ------------------------------------------------------------ sessions
AnsweredIds == {session.responses[i].questionId : i \in 1..Len(session.responses)}

OneRecordPerQuestion ==
  \A i, j \in 1..Len(session.responses) :
    session.responses[i].questionId = session.responses[j].questionId => i = j

\* C29: the stored responses hold at most one record per question id and
\* progress.currentIndex is their number, after any sequence of answer
\* requests; a rejected request leaves the stored session as it was.
C29_SessionConsistent ==
  /\ [](OneRecordPerQuestion /\ session.currentIndex = Len(session.responses))
  /\ [][(reply'.kind = "answer" /\ reply'.status = 400) => session' = session]_vars

\* a repeated answer was rejected with two records stored
C29_RepeatRejectedWitness ==
  /\ reply.exists
  /\ reply.kind = "answer"
  /\ reply.error = "already answered"
  /\ Len(session.responses) >= 2

\* C30: the question the next-question request offers has not been answered
\* yet, and completion succeeds only with every question answered.
C30_NextOffersUnanswered ==
  /\ (reply.exists /\ reply.kind = "next" /\ ~reply.done) =>
       reply.question \notin AnsweredIds
  /\ (reply.exists /\ reply.kind = "complete" /\ reply.status = 200) =>
       AnsweredIds = {flat[i].id : i \in 1..Len(flat)}

====
